---- MODULE Spec2Model ----
(***************************************************************************)
(* Model of the parallel collapsed Gibbs sampler LdaThreads and of its     *)
(* helpers (dist, pickRandom) from package nlp.                            *)
(*                                                                         *)
(* Conventions.                                                            *)
(*  - Topics, word ids and the positions of a weight vector are 0-based,   *)
(*    as in the Go code.  Documents and token positions are 1-based        *)
(*    sequences (document i of the code is docs[i+1] here).                *)
(*  - float32 values are modelled as exact rationals.  A dist stores       *)
(*    alpha as alphaDen with alpha = 1/alphaDen, so that                   *)
(*    p(i) = (alphaDen*count[i] + sum) / ((alphaDen + n)*sum).             *)
(*  - rnd.Float32() returns f/RandRes for f in 0..RandRes-1 (a value of    *)
(*    [0,1), zero included).                                               *)
(***************************************************************************)
EXTENDS Integers, Sequences, FiniteSets, TLC

\* ----- bounds of the model --------------------------------------------------
MaxK == 2
MaxThreads == 2
RandRes == 4
MaxLen == 3
MaxWeight == 2
MaxFairLoad == 2      \* k * numThreads in the runs checked for progress

\* ----- program constants ----------------------------------------------------
BreakLimit == 5
BufPerThread == 1000

VARIABLES
    docTokens, k, numThreads,   \* the arguments of LdaThreads
    chanBuf,                    \* buffered slots per worker of push and pull
    driver,                     \* position of the calling goroutine
    words, docs, topics, doct,  \* word map, corpus of word ids, tables, labels
    initPos,                    \* <<i, j>> of the initial-assignment loops
    lastChange, breakSignals, changeMap, newTopics,
    push, pull, change, done,   \* channels: [buf, closed]
    doneRecv,                   \* completion signals the driver has received
    pusher, puller, changer,    \* positions of the three helper goroutines
    workers,                    \* per worker: pc, myTopics, myChangeMap, d, i, j
    result,                     \* what LdaThreads returned
    history,                    \* this round's record of who did what (ghost)
    rounds,                     \* [on, n]: n iterations of the loop have begun,
                                \* counted in the runs that have on (ghost)
    pick                        \* a call of pickRandom: [a, f, u, called, out]

vars == <<docTokens, k, numThreads, chanBuf, driver, words, docs, topics, doct, initPos,
          lastChange, breakSignals, changeMap, newTopics, push, pull, change,
          done, doneRecv, pusher, puller, changer, workers, result, history,
          rounds, pick>>

\* ----- dist -------------------------------------------------------------------

\* newDist(n, alpha) with alpha = 1/alphaDen.
newDist(n, alphaDen) ==
    [sum |-> 0, count |-> [x \in 0..(n - 1) |-> 0], alphaDen |-> alphaDen]

\* newDists(k, n, alpha)
newDists(kk, n, alphaDen) == [t \in 0..(kk - 1) |-> newDist(n, alphaDen)]

\* An add that forgets the running sum.
addNoSum(d, i) == [d EXCEPT !.count[i] = @ + 1]

\* d.add(i)
add(d, i) == [d EXCEPT !.count[i] = @ + 1, !.sum = @ + 1]

\* d.sub(i): the decrement; the panic test is subPanics.
sub(d, i) == [d EXCEPT !.count[i] = @ - 1, !.sum = @ - 1]

\* d.sub(i) panics when the decremented count is negative.
subPanics(d, i) == sub(d, i).count[i] < 0

\* A copy that allocates the counts and never fills them.
copyCountsLost(d) ==
    [sum |-> d.sum, count |-> [x \in DOMAIN d.count |-> 0],
     alphaDen |-> d.alphaDen]

\* d.copy()
copy(d) == [sum |-> d.sum, count |-> [x \in DOMAIN d.count |-> d.count[x]],
            alphaDen |-> d.alphaDen]

\* copyDists(dists)
copyDists(dists) == [t \in DOMAIN dists |-> copy(dists[t])]

\* The numerator of textbook smoothing, count[i] + alpha, also when sum = 0.
pNumClassic(d, i) == d.alphaDen * d.count[i] + 1

\* d.p(i) as the fraction pNum/pDen; 0 when d.sum = 0.
pNum(d, i) == IF d.sum = 0 THEN 0 ELSE d.alphaDen * d.count[i] + d.sum
pDen(d) == IF d.sum = 0 THEN 1 ELSE (d.alphaDen + Cardinality(DOMAIN d.count)) * d.sum

\* ----- pickRandom -------------------------------------------------------------

RECURSIVE SumTo(_, _)
\* a[0] + ... + a[n-1]
SumTo(a, n) == IF n = 0 THEN 0 ELSE SumTo(a, n - 1) + a[n - 1]

VecLen(a) == Cardinality(DOMAIN a)

RECURSIVE walk(_, _, _)
\* The loop "for i < len(a) && r > a[i] { r -= a[i]; i++ }".
walk(a, r, i) ==
    IF i < VecLen(a) /\ r > a[i] THEN walk(a, r - a[i], i + 1) ELSE i

\* pickRandom(a, rnd): f/RandRes is the value rnd.Float32() returns and u the
\* value rnd.Intn(len(a)) returns.  Weights and r are scaled by RandRes.
\* The result is [panic |-> TRUE] or the index returned.
Returned(i) == [panic |-> FALSE, index |-> i]
Panicked == [panic |-> TRUE, index |-> 0]

\* pickRandom testing the sum, not each weight, for a negative value.
pickRandomSumTest(a, f, u) ==
    IF VecLen(a) = 0 THEN Panicked
    ELSE IF SumTo(a, VecLen(a)) < 0 THEN Panicked
    ELSE IF SumTo(a, VecLen(a)) = 0 THEN Returned(u)
    ELSE LET r == f * SumTo(a, VecLen(a))
             sc == [x \in DOMAIN a |-> RandRes * a[x]]
             i == walk(sc, r, 0)
         IN IF i = VecLen(a) THEN Returned(i - 1) ELSE Returned(i)

pickRandom(a, f, u) ==
    IF VecLen(a) = 0 THEN Panicked
    ELSE IF \E x \in DOMAIN a : a[x] < 0 THEN Panicked
    ELSE IF SumTo(a, VecLen(a)) = 0 THEN Returned(u)
    ELSE LET r == f * SumTo(a, VecLen(a))
             sc == [x \in DOMAIN a |-> RandRes * a[x]]
             i == walk(sc, r, 0)
         IN IF i = VecLen(a) THEN Returned(i - 1) ELSE Returned(i)

\* Every value pickRandom(a, rnd) can return over the values of the source.
pickOutcomes(a) ==
    {pickRandom(a, f, u) : f \in 0..(RandRes - 1),
                           u \in IF VecLen(a) = 0 THEN {0} ELSE 0..(VecLen(a) - 1)}

\* ----- input handling ---------------------------------------------------------

RECURSIVE Flatten(_)
\* The tokens of all documents in the order the word-map loop visits them.
Flatten(ds) == IF ds = <<>> THEN <<>> ELSE Head(ds) \o Flatten(Tail(ds))

\* The word map: words[word] = len(words) at the word's first occurrence.
wordMap(dt) ==
    LET flat == Flatten(dt)
        first(w) == CHOOSE x \in 1..Len(flat) :
                        flat[x] = w /\ \A y \in 1..(x - 1) : flat[y] # w
    IN [w \in {flat[x] : x \in 1..Len(flat)} |->
            Cardinality({flat[y] : y \in 1..(first(w) - 1)})]

\* docs[i][j] = words[docTokens[i][j]]
toIndexes(dt, wm) ==
    [i \in 1..Len(dt) |-> [j \in 1..Len(dt[i]) |-> wm[dt[i][j]]]]

\* doct[i] = make([]int, len(docs[i])): rows of zeros.
zeroRows(ds) == [i \in 1..Len(ds) |-> [j \in 1..Len(ds[i]) |-> 0]]

NumWords == Cardinality(DOMAIN words)

\* The position the nested initial-assignment loops visit after <<i, j>>
\* (from <<i, j>> itself on when it is a token); <<Len(ds) + 1, 1>> at the end.
RECURSIVE seekPos(_, _, _)
seekPos(ds, i, j) ==
    IF i > Len(ds) THEN <<Len(ds) + 1, 1>>
    ELSE IF j <= Len(ds[i]) THEN <<i, j>>
    ELSE seekPos(ds, i + 1, 1)

\* ----- values of the goroutines' locals ---------------------------------------

NoDist == [sum |-> 0, count |-> <<>>, alphaDen |-> 0]

idleWorker ==
    [pc |-> "idle", myTopics |-> <<>>, myChangeMap |-> {}, d |-> NoDist,
     i |-> 0, j |-> 0]

\* Ghost record of a round over n documents: owner[i] lists the workers that
\* received document i from push, writers[i] the workers that wrote a label of
\* row i, reports[i] counts "pull <- i", folded[i] counts the times the puller
\* added document i to newTopics, absorbed counts the maps the changeMap
\* goroutine has merged, changed holds the word ids of the tokens whose label
\* a worker replaced by a different one, and received lists the senders of the
\* completion signals in the order the driver received them.
noHistory(n) ==
    [owner |-> [i \in 1..n |-> <<>>], writers |-> [i \in 1..n |-> {}],
     reports |-> [i \in 1..n |-> 0], folded |-> [i \in 1..n |-> 0],
     absorbed |-> 0, changed |-> {}, received |-> <<>>]

newChan == [buf |-> <<>>, closed |-> FALSE]

Threads == 1..numThreads

pushCap == numThreads * chanBuf
pullCap == numThreads * chanBuf
changeCap == numThreads
doneCap == numThreads

\* A panic anywhere ends the program.
Running == driver # "panic"

\* ----- initial states ---------------------------------------------------------

\* The corpora LdaThreads is called with: no document, an empty document,
\* one and two documents, one and two words, a repeated word, a word shared
\* by two documents.
Corpora ==
    { <<>>,
      << <<>> >>,
      << <<"a">> >>,
      << <<"a", "b">> >>,
      << <<"a">>, <<"b">> >>,
      << <<>>, <<"a", "a">> >>,
      << <<"a", "b">>, <<"a">> >> }

\* The count of rounds: kept (on) or not.
roundCount(on) == [on |-> on, n |-> 0]

\* LdaThreads has not returned.
noResult == [returned |-> FALSE]

\* The harness of pickRandom before the call.
idlePick == [a |-> <<>>, f |-> 0, u |-> 0, called |-> FALSE, out |-> Returned(0)]

\* The state before LdaThreads has executed anything.
Blank ==
    /\ words = <<>> /\ docs = <<>> /\ topics = <<>> /\ doct = <<>>
    /\ initPos = <<1, 1>>
    /\ lastChange = 0 /\ breakSignals = 0 /\ changeMap = {}
    /\ newTopics = <<>>
    /\ push = newChan /\ pull = newChan /\ change = newChan /\ done = newChan
    /\ doneRecv = 0
    /\ pusher = [pc |-> "idle", i |-> 0]
    /\ puller = "idle" /\ changer = "idle"
    /\ workers = <<>>
    /\ result = noResult
    /\ history = noHistory(0)

Init ==
    /\ docTokens \in Corpora
    /\ k \in 0..MaxK
    /\ numThreads \in 0..MaxThreads
    /\ chanBuf = BufPerThread
    /\ driver = "check"
    /\ Blank
    /\ pick = idlePick
    /\ rounds = roundCount(FALSE)

\* ----- LdaThreads: the calling goroutine --------------------------------------

\* What only RoundStart (the count of rounds) and the harness of pickRandom
\* change.
inputUnchanged == UNCHANGED <<docTokens, k, numThreads, chanBuf, pick, rounds>>
roundUnchanged ==
    UNCHANGED <<changeMap, newTopics, push, pull, change, done, doneRecv,
                pusher, puller, changer, workers, history>>

\* Lines 27-33: the checks of k and numThreads.
badArguments(kk, nt) == kk < 1 \/ nt < 1

\* The word map is never found empty.
noWordsNever(wm) == FALSE

\* Lines 44-46: the check of the word map.
noWords(wm) == Cardinality(DOMAIN wm) = 0

\* Lines 26-62: the input checks, the word map, the index conversion, the
\* empty tables and the allocation of the label rows.
CheckInput ==
    /\ driver = "check"
    /\ IF badArguments(k, numThreads)
       THEN /\ driver' = "panic"
            /\ UNCHANGED <<words, docs, topics, doct, initPos>>
       ELSE /\ words' = wordMap(docTokens)
            /\ IF noWords(wordMap(docTokens))
               THEN /\ driver' = "panic"
                    /\ UNCHANGED <<docs, topics, doct, initPos>>
               ELSE /\ docs' = toIndexes(docTokens, wordMap(docTokens))
                    /\ topics' = newDists(k, Cardinality(DOMAIN wordMap(docTokens)),
                                          10 * Cardinality(DOMAIN wordMap(docTokens)))
                    /\ doct' = zeroRows(docTokens)
                    /\ initPos' = seekPos(docTokens, 1, 1)
                    /\ driver' = "init"
    /\ UNCHANGED <<lastChange, breakSignals, result>>
    /\ roundUnchanged /\ inputUnchanged

\* The initial assignment drawing the topic from 1..k.
InitAssignFromOne ==
    /\ driver = "init"
    /\ initPos[1] <= Len(docs)
    /\ \E t \in 1..k :
        /\ doct' = [doct EXCEPT ![initPos[1]][initPos[2]] = t]
        /\ topics' = [topics EXCEPT ![t - 1] = add(@, docs[initPos[1]][initPos[2]])]
    /\ initPos' = seekPos(docs, initPos[1], initPos[2] + 1)
    /\ UNCHANGED <<driver, words, docs, lastChange, breakSignals, result>>
    /\ roundUnchanged /\ inputUnchanged

\* Lines 63-67: one pass of the inner initial-assignment loop.
InitAssign ==
    /\ driver = "init"
    /\ initPos[1] <= Len(docs)
    /\ \E t \in 0..(k - 1) :
        /\ doct' = [doct EXCEPT ![initPos[1]][initPos[2]] = t]
        /\ topics' = [topics EXCEPT ![t] = add(@, docs[initPos[1]][initPos[2]])]
    /\ initPos' = seekPos(docs, initPos[1], initPos[2] + 1)
    /\ UNCHANGED <<driver, words, docs, lastChange, breakSignals, result>>
    /\ roundUnchanged /\ inputUnchanged

\* Lines 71-72.
StartLoop ==
    /\ driver = "init"
    /\ initPos[1] > Len(docs)
    /\ lastChange' = NumWords
    /\ breakSignals' = 0
    /\ driver' = "round"
    /\ UNCHANGED <<words, docs, topics, doct, initPos, result>>
    /\ roundUnchanged /\ inputUnchanged

\* Lines 74-160: the round's fresh state and the go statements.
RoundStart ==
    /\ driver = "round"
    /\ changeMap' = {}
    /\ newTopics' = newDists(k, NumWords, 10 * NumWords)
    /\ push' = newChan /\ pull' = newChan /\ change' = newChan /\ done' = newChan
    /\ pusher' = [pc |-> "run", i |-> 1]
    /\ puller' = "run"
    /\ changer' = "run"
    /\ workers' = [w \in Threads |-> [idleWorker EXCEPT !.pc = "start"]]
    /\ doneRecv' = 0
    /\ history' = noHistory(Len(docs))
    /\ rounds' = IF rounds.on THEN [rounds EXCEPT !.n = @ + 1] ELSE rounds
    /\ driver' = "wait"
    /\ UNCHANGED <<words, docs, topics, doct, initPos, lastChange, breakSignals,
                   result>>
    /\ UNCHANGED <<docTokens, k, numThreads, chanBuf, pick>>

\* Lines 163-165: one "<-done" of the first loop.
WaitWorker ==
    /\ driver = "wait"
    /\ doneRecv < numThreads
    /\ done.buf # <<>>
    /\ done' = [done EXCEPT !.buf = Tail(@)]
    /\ doneRecv' = doneRecv + 1
    /\ history' = [history EXCEPT !.received = Append(@, Head(done.buf))]
    /\ UNCHANGED <<driver, words, docs, topics, doct, initPos, lastChange,
                   breakSignals, result, changeMap, newTopics, push, pull,
                   change, pusher, puller, changer, workers>>
    /\ inputUnchanged

\* The channels closed without waiting for the workers.
CloseChansEarly ==
    /\ driver = "wait"
    /\ pull' = [pull EXCEPT !.closed = TRUE]
    /\ change' = [change EXCEPT !.closed = TRUE]
    /\ driver' = "join"
    /\ UNCHANGED <<words, docs, topics, doct, initPos, lastChange, breakSignals,
                   result, changeMap, newTopics, push, done, doneRecv, pusher,
                   puller, changer, workers, history>>
    /\ inputUnchanged

\* Lines 166-167: close(pull); close(change).
CloseChans ==
    /\ driver = "wait"
    /\ doneRecv = numThreads
    /\ pull' = [pull EXCEPT !.closed = TRUE]
    /\ change' = [change EXCEPT !.closed = TRUE]
    /\ driver' = "join"
    /\ UNCHANGED <<words, docs, topics, doct, initPos, lastChange, breakSignals,
                   result, changeMap, newTopics, push, done, doneRecv, pusher,
                   puller, changer, workers, history>>
    /\ inputUnchanged

\* Lines 168-169: one of the two last "<-done".
WaitReducer ==
    /\ driver = "join"
    /\ doneRecv < numThreads + 2
    /\ done.buf # <<>>
    /\ done' = [done EXCEPT !.buf = Tail(@)]
    /\ doneRecv' = doneRecv + 1
    /\ history' = [history EXCEPT !.received = Append(@, Head(done.buf))]
    /\ UNCHANGED <<driver, words, docs, topics, doct, initPos, lastChange,
                   breakSignals, result, changeMap, newTopics, push, pull,
                   change, pusher, puller, changer, workers>>
    /\ inputUnchanged

\* The round ends without the swap: topics keeps the old table.
UpdateTopicsSkipped ==
    /\ driver = "join"
    /\ doneRecv = numThreads + 2
    /\ driver' = "halt"
    /\ UNCHANGED <<words, docs, topics, doct, initPos, lastChange, breakSignals,
                   result>>
    /\ roundUnchanged /\ inputUnchanged

\* The swap without the two last "<-done": the reducers are not awaited.
UpdateTopicsNoJoin ==
    /\ driver = "join"
    /\ topics' = newTopics
    /\ driver' = "halt"
    /\ UNCHANGED <<words, docs, doct, initPos, lastChange, breakSignals, result>>
    /\ roundUnchanged /\ inputUnchanged

\* Line 172: topics = newTopics.
UpdateTopics ==
    /\ driver = "join"
    /\ doneRecv = numThreads + 2
    /\ topics' = newTopics
    /\ driver' = "halt"
    /\ UNCHANGED <<words, docs, doct, initPos, lastChange, breakSignals, result>>
    /\ roundUnchanged /\ inputUnchanged

\* The halting condition with a counter that is reset by a decrease.
CheckHaltReset ==
    /\ driver = "halt"
    /\ IF Cardinality(changeMap) >= lastChange
       THEN /\ breakSignals' = breakSignals + 1
            /\ IF breakSignals + 1 = BreakLimit
               THEN driver' = "return" /\ UNCHANGED lastChange
               ELSE driver' = "round" /\ lastChange' = Cardinality(changeMap)
       ELSE /\ breakSignals' = 0
            /\ driver' = "round"
            /\ lastChange' = Cardinality(changeMap)
    /\ UNCHANGED <<words, docs, topics, doct, initPos, result>>
    /\ roundUnchanged /\ inputUnchanged

\* The halting condition leaving the loop one plateau early.
CheckHaltEarly ==
    /\ driver = "halt"
    /\ IF Cardinality(changeMap) >= lastChange
       THEN /\ breakSignals' = breakSignals + 1
            /\ IF breakSignals + 1 = BreakLimit - 1
               THEN driver' = "return" /\ UNCHANGED lastChange
               ELSE driver' = "round" /\ lastChange' = Cardinality(changeMap)
       ELSE /\ UNCHANGED breakSignals
            /\ driver' = "round"
            /\ lastChange' = Cardinality(changeMap)
    /\ UNCHANGED <<words, docs, topics, doct, initPos, result>>
    /\ roundUnchanged /\ inputUnchanged

\* Lines 175-181: the halting condition.
CheckHalt ==
    /\ driver = "halt"
    /\ IF Cardinality(changeMap) >= lastChange
       THEN /\ breakSignals' = breakSignals + 1
            /\ IF breakSignals + 1 = BreakLimit
               THEN driver' = "return" /\ UNCHANGED lastChange
               ELSE driver' = "round" /\ lastChange' = Cardinality(changeMap)
       ELSE /\ UNCHANGED breakSignals
            /\ driver' = "round"
            /\ lastChange' = Cardinality(changeMap)
    /\ UNCHANGED <<words, docs, topics, doct, initPos, result>>
    /\ roundUnchanged /\ inputUnchanged

\* d.dist(): count[i] / sum, as a pair; 0/0 is NaN.
dist(d) ==
    [x \in DOMAIN d.count |-> IF d.sum = 0 THEN "NaN" ELSE <<d.count[x], d.sum>>]

\* Lines 185-195: the return values.
Return ==
    /\ driver = "return"
    /\ result' = [returned |-> TRUE,
                  topicDists |-> [t \in DOMAIN topics |-> dist(topics[t])],
                  doct |-> doct,
                  sdrow |-> [x \in 0..(NumWords - 1) |->
                                CHOOSE w \in DOMAIN words : words[w] = x]]
    /\ driver' = "done"
    /\ UNCHANGED <<words, docs, topics, doct, initPos, lastChange, breakSignals>>
    /\ roundUnchanged /\ inputUnchanged

\* ----- LdaThreads: the goroutines of a round ----------------------------------

driverUnchanged ==
    UNCHANGED <<driver, words, docs, topics, initPos, lastChange, breakSignals,
                doneRecv, result>>

\* The pusher sending every document index twice.
PushDocTwice ==
    /\ Running
    /\ pusher.pc = "run"
    /\ pusher.i <= Len(docs)
    /\ Len(push.buf) + 1 < pushCap
    /\ push' = [push EXCEPT !.buf = Append(Append(@, pusher.i), pusher.i)]
    /\ pusher' = [pusher EXCEPT !.i = @ + 1]
    /\ UNCHANGED <<doct, changeMap, newTopics, pull, change, done, puller,
                   changer, workers, history>>
    /\ driverUnchanged /\ inputUnchanged

\* Lines 85-87: push <- i.
PushDoc ==
    /\ Running
    /\ pusher.pc = "run"
    /\ pusher.i <= Len(docs)
    /\ Len(push.buf) < pushCap
    /\ push' = [push EXCEPT !.buf = Append(@, pusher.i)]
    /\ pusher' = [pusher EXCEPT !.i = @ + 1]
    /\ UNCHANGED <<doct, changeMap, newTopics, pull, change, done, puller,
                   changer, workers, history>>
    /\ driverUnchanged /\ inputUnchanged

\* Line 88: close(push).
PushClose ==
    /\ Running
    /\ pusher.pc = "run"
    /\ pusher.i > Len(docs)
    /\ push' = [push EXCEPT !.closed = TRUE]
    /\ pusher' = [pusher EXCEPT !.pc = "exit"]
    /\ UNCHANGED <<doct, changeMap, newTopics, pull, change, done, puller,
                   changer, workers, history>>
    /\ driverUnchanged /\ inputUnchanged

RECURSIVE foldRowSkipFirst(_, _, _, _)
\* The puller's inner loop starting at the second token.
foldRowSkipFirst(nt, labels, wordIds, n) ==
    IF n <= 1 THEN nt
    ELSE [foldRowSkipFirst(nt, labels, wordIds, n - 1) EXCEPT
              ![labels[n]] = add(@, wordIds[n])]

RECURSIVE foldRow(_, _, _, _)
\* Lines 94-96: newTopics[doct[i][j]].add(docs[i][j]) for the first n tokens.
foldRow(nt, labels, wordIds, n) ==
    IF n = 0 THEN nt
    ELSE [foldRow(nt, labels, wordIds, n - 1) EXCEPT
              ![labels[n]] = add(@, wordIds[n])]

\* Lines 93-97: the puller takes one finished document.
PullDoc ==
    /\ Running
    /\ puller = "run"
    /\ pull.buf # <<>>
    /\ LET i == Head(pull.buf) IN
        /\ newTopics' = foldRow(newTopics, doct[i], docs[i], Len(docs[i]))
        /\ history' = [history EXCEPT !.folded[i] = @ + 1]
    /\ pull' = [pull EXCEPT !.buf = Tail(@)]
    /\ UNCHANGED <<doct, changeMap, push, change, done, pusher, puller, changer,
                   workers>>
    /\ driverUnchanged /\ inputUnchanged

\* Line 98: pull is closed and drained; done <- 0.
PullDone ==
    /\ Running
    /\ puller = "run"
    /\ pull.buf = <<>> /\ pull.closed
    /\ Len(done.buf) < doneCap
    /\ done' = [done EXCEPT !.buf = Append(@, "puller")]
    /\ puller' = "exit"
    /\ UNCHANGED <<doct, changeMap, newTopics, push, pull, change, pusher,
                   changer, workers, history>>
    /\ driverUnchanged /\ inputUnchanged

\* The changeMap goroutine keeping only the last worker's map.
ChangeMergeOverwrite ==
    /\ Running
    /\ changer = "run"
    /\ change.buf # <<>>
    /\ changeMap' = Head(change.buf)
    /\ change' = [change EXCEPT !.buf = Tail(@)]
    /\ history' = [history EXCEPT !.absorbed = @ + 1]
    /\ UNCHANGED <<doct, newTopics, push, pull, done, pusher, puller, changer,
                   workers>>
    /\ driverUnchanged /\ inputUnchanged

\* Lines 104-108: the changeMap goroutine merges one worker's map.
ChangeMerge ==
    /\ Running
    /\ changer = "run"
    /\ change.buf # <<>>
    /\ changeMap' = changeMap \cup Head(change.buf)
    /\ change' = [change EXCEPT !.buf = Tail(@)]
    /\ history' = [history EXCEPT !.absorbed = @ + 1]
    /\ UNCHANGED <<doct, newTopics, push, pull, done, pusher, puller, changer,
                   workers>>
    /\ driverUnchanged /\ inputUnchanged

\* Line 109: change is closed and drained; done <- 0.
ChangeDone ==
    /\ Running
    /\ changer = "run"
    /\ change.buf = <<>> /\ change.closed
    /\ Len(done.buf) < doneCap
    /\ done' = [done EXCEPT !.buf = Append(@, "changer")]
    /\ changer' = "exit"
    /\ UNCHANGED <<doct, changeMap, newTopics, push, pull, change, pusher,
                   puller, workers, history>>
    /\ driverUnchanged /\ inputUnchanged

\* ----- LdaThreads: the worker goroutines --------------------------------------

workerUnchanged ==
    UNCHANGED <<changeMap, newTopics, pusher, puller, changer>>

RECURSIVE buildDistShort(_, _, _)
\* The document's distribution built without the row's last token.
buildDistShort(kk, labels, n) ==
    IF n <= 1 THEN newDist(kk, 10 * kk)
    ELSE add(buildDistShort(kk, labels, n - 1), labels[n - 1])

RECURSIVE buildDist(_, _, _)
\* Lines 124-127: the document's distribution over topics after n tokens.
buildDist(kk, labels, n) ==
    IF n = 0 THEN newDist(kk, 10 * kk)
    ELSE add(buildDist(kk, labels, n - 1), labels[n])

RECURSIVE prodDen(_, _, _)
\* The product of the denominators of myTopics[x].p(word), x < n, x # kk.
prodDen(mt, n, kk) ==
    IF n = 0 THEN 1
    ELSE prodDen(mt, n - 1, kk) * (IF n - 1 = kk THEN 1 ELSE pDen(mt[n - 1]))

\* Lines 139-141: ts[k] = d.p(k) * myTopics[k].p(word), all of them multiplied
\* by the common denominator pDen(d) * pDen(myTopics[0]) * ... (positive).
ts(d, mt, word) ==
    [kk \in DOMAIN mt |->
        pNum(d, kk) * pNum(mt[kk], word) * prodDen(mt, VecLen(mt), kk)]

\* Lines 116-119: the worker's locals.
WStart(w) ==
    /\ Running
    /\ workers[w].pc = "start"
    /\ workers' = [workers EXCEPT ![w].myTopics = copyDists(topics),
                                  ![w].myChangeMap = {},
                                  ![w].pc = "recv"]
    /\ UNCHANGED <<doct, push, pull, change, done, history>>
    /\ workerUnchanged /\ driverUnchanged /\ inputUnchanged

\* The worker reporting a document as done when it takes it.
WRecvReportFirst(w) ==
    /\ Running
    /\ workers[w].pc = "recv"
    /\ push.buf # <<>>
    /\ LET i == Head(push.buf) IN
        /\ workers' = [workers EXCEPT
                ![w].i = i, ![w].j = 1,
                ![w].d = buildDist(k, doct[i], Len(doct[i])),
                ![w].pc = IF Len(doct[i]) = 0 THEN "recv" ELSE "unassign"]
        /\ history' = [history EXCEPT !.owner[i] = Append(@, w),
                                      !.reports[i] = @ + 1]
        /\ pull' = [pull EXCEPT !.buf = Append(@, i)]
    /\ push' = [push EXCEPT !.buf = Tail(@)]
    /\ UNCHANGED <<doct, change, done>>
    /\ workerUnchanged /\ driverUnchanged /\ inputUnchanged

\* Lines 122-127: "for i := range push" takes a document and builds d.
WRecv(w) ==
    /\ Running
    /\ workers[w].pc = "recv"
    /\ push.buf # <<>>
    /\ LET i == Head(push.buf) IN
        /\ workers' = [workers EXCEPT
                ![w].i = i, ![w].j = 1,
                ![w].d = buildDist(k, doct[i], Len(doct[i])),
                ![w].pc = IF Len(doct[i]) = 0 THEN "report" ELSE "unassign"]
        /\ history' = [history EXCEPT !.owner[i] = Append(@, w)]
    /\ push' = [push EXCEPT !.buf = Tail(@)]
    /\ UNCHANGED <<doct, pull, change, done>>
    /\ workerUnchanged /\ driverUnchanged /\ inputUnchanged

\* Line 122: push is closed and drained, the range loop ends.
WDrained(w) ==
    /\ Running
    /\ workers[w].pc = "recv"
    /\ push.buf = <<>> /\ push.closed
    /\ workers' = [workers EXCEPT ![w].pc = "change"]
    /\ UNCHANGED <<doct, push, pull, change, done, history>>
    /\ workerUnchanged /\ driverUnchanged /\ inputUnchanged

\* The unassignment when myTopics is the shared table, not a copy of it.
WUnassignShared(w) ==
    /\ Running
    /\ workers[w].pc = "unassign"
    /\ LET me == workers[w]
           t == doct[me.i][me.j]
           word == docs[me.i][me.j]
       IN IF subPanics(me.d, t) \/ subPanics(topics[t], word)
          THEN /\ driver' = "panic"
               /\ workers' = [workers EXCEPT ![w].pc = "panic"]
               /\ UNCHANGED topics
          ELSE /\ workers' = [workers EXCEPT
                       ![w].d = sub(@, t),
                       ![w].pc = "assign"]
               /\ topics' = [topics EXCEPT ![t] = sub(@, word)]
               /\ UNCHANGED driver
    /\ UNCHANGED <<doct, push, pull, change, done, history>>
    /\ UNCHANGED <<words, docs, initPos, lastChange, breakSignals,
                   doneRecv, result>>
    /\ workerUnchanged /\ inputUnchanged

\* Lines 131-136: d.sub(t); myTopics[t].sub(word).
WUnassign(w) ==
    /\ Running
    /\ workers[w].pc = "unassign"
    /\ LET me == workers[w]
           t == doct[me.i][me.j]
           word == docs[me.i][me.j]
       IN IF subPanics(me.d, t) \/ subPanics(me.myTopics[t], word)
          THEN /\ driver' = "panic"
               /\ workers' = [workers EXCEPT ![w].pc = "panic"]
          ELSE /\ workers' = [workers EXCEPT
                       ![w].d = sub(@, t),
                       ![w].myTopics[t] = sub(@, word),
                       ![w].pc = "assign"]
               /\ UNCHANGED driver
    /\ UNCHANGED <<doct, push, pull, change, done, history>>
    /\ UNCHANGED <<words, docs, topics, initPos, lastChange, breakSignals,
                   doneRecv, result>>
    /\ workerUnchanged /\ inputUnchanged

\* Lines 139-150: the weights, the draw, the change mark and the assignment.
WAssign(w) ==
    /\ Running
    /\ workers[w].pc = "assign"
    /\ LET me == workers[w]
           word == docs[me.i][me.j]
       IN \E out \in pickOutcomes(ts(me.d, me.myTopics, word)) :
            IF out.panic
            THEN /\ driver' = "panic"
                 /\ workers' = [workers EXCEPT ![w].pc = "panic"]
                 /\ UNCHANGED <<doct, history>>
            ELSE /\ workers' = [workers EXCEPT
                        ![w].myChangeMap =
                            IF out.index # doct[me.i][me.j]
                            THEN @ \cup {word} ELSE @,
                        ![w].d = add(@, out.index),
                        ![w].myTopics[out.index] = add(@, word),
                        ![w].j = @ + 1,
                        ![w].pc = IF me.j = Len(doct[me.i])
                                  THEN "report" ELSE "unassign"]
                 /\ doct' = [doct EXCEPT ![me.i][me.j] = out.index]
                 /\ history' = [history EXCEPT
                        !.writers[me.i] = @ \cup {w},
                        !.changed = IF out.index # doct[me.i][me.j]
                                    THEN @ \cup {word} ELSE @]
                 /\ UNCHANGED driver
    /\ UNCHANGED <<push, pull, change, done>>
    /\ UNCHANGED <<words, docs, topics, initPos, lastChange, breakSignals,
                   doneRecv, result>>
    /\ workerUnchanged /\ inputUnchanged

\* Line 154: pull <- i.  A send on a closed channel panics.
WReport(w) ==
    /\ Running
    /\ workers[w].pc = "report"
    /\ IF pull.closed
       THEN /\ driver' = "panic"
            /\ workers' = [workers EXCEPT ![w].pc = "panic"]
            /\ UNCHANGED <<pull, history>>
       ELSE /\ Len(pull.buf) < pullCap
            /\ pull' = [pull EXCEPT !.buf = Append(@, workers[w].i)]
            /\ history' = [history EXCEPT !.reports[workers[w].i] = @ + 1]
            /\ workers' = [workers EXCEPT ![w].pc = "recv", ![w].d = NoDist,
                                          ![w].i = 0, ![w].j = 0]
            /\ UNCHANGED driver
    /\ UNCHANGED <<doct, push, change, done>>
    /\ UNCHANGED <<words, docs, topics, initPos, lastChange, breakSignals,
                   doneRecv, result>>
    /\ workerUnchanged /\ inputUnchanged

\* Line 157: change <- myChangeMap.  A send on a closed channel panics.
WChange(w) ==
    /\ Running
    /\ workers[w].pc = "change"
    /\ IF change.closed
       THEN /\ driver' = "panic"
            /\ workers' = [workers EXCEPT ![w].pc = "panic"]
            /\ UNCHANGED change
       ELSE /\ Len(change.buf) < changeCap
            /\ change' = [change EXCEPT !.buf = Append(@, workers[w].myChangeMap)]
            /\ workers' = [workers EXCEPT ![w].pc = "done"]
            /\ UNCHANGED driver
    /\ UNCHANGED <<doct, push, pull, done, history>>
    /\ UNCHANGED <<words, docs, topics, initPos, lastChange, breakSignals,
                   doneRecv, result>>
    /\ workerUnchanged /\ inputUnchanged

\* Line 158: done <- 0; the goroutine ends.
WDone(w) ==
    /\ Running
    /\ workers[w].pc = "done"
    /\ Len(done.buf) < doneCap
    /\ done' = [done EXCEPT !.buf = Append(@, "worker")]
    /\ workers' = [workers EXCEPT ![w] = [idleWorker EXCEPT !.pc = "exit"]]
    /\ UNCHANGED <<doct, push, pull, change, history>>
    /\ workerUnchanged /\ driverUnchanged /\ inputUnchanged

\* ----- the specification of LdaThreads ----------------------------------------

Next ==
    \/ CheckInput
    \/ InitAssign
    \/ StartLoop
    \/ RoundStart
    \/ WaitWorker
    \/ CloseChans
    \/ WaitReducer
    \/ UpdateTopics
    \/ CheckHalt
    \/ Return
    \/ PushDoc
    \/ PushClose
    \/ PullDoc
    \/ PullDone
    \/ ChangeMerge
    \/ ChangeDone
    \/ \E w \in DOMAIN workers : WStart(w)
    \/ \E w \in DOMAIN workers : WRecv(w)
    \/ \E w \in DOMAIN workers : WDrained(w)
    \/ \E w \in DOMAIN workers : WUnassign(w)
    \/ \E w \in DOMAIN workers : WAssign(w)
    \/ \E w \in DOMAIN workers : WReport(w)
    \/ \E w \in DOMAIN workers : WChange(w)
    \/ \E w \in DOMAIN workers : WDone(w)

Spec == Init /\ [][Next]_vars

\* ----- LdaThreads with one worker at most, its rounds counted ------------------

InitRounds ==
    /\ docTokens \in Corpora
    /\ k \in 0..MaxK
    /\ numThreads \in 0..1
    /\ chanBuf = BufPerThread
    /\ driver = "check"
    /\ Blank
    /\ pick = idlePick
    /\ rounds = roundCount(TRUE)

\* The Go scheduler runs some goroutine that can take a step.
SpecRounds == InitRounds /\ [][Next]_vars /\ WF_vars(Next)

\* ----- LdaThreads under fair scheduling, also with channels of one slot -------

\* The behaviour of a round depends on the buffers only through whether they
\* fill up: one slot per worker makes a corpus of two documents fill them,
\* as more than 1000 documents per worker do in the source.
InitFair ==
    /\ docTokens \in Corpora
    /\ k \in 0..MaxK
    /\ numThreads \in 0..MaxThreads
    /\ k * numThreads <= MaxFairLoad
    /\ chanBuf \in {1, BufPerThread}
    /\ driver = "check"
    /\ Blank
    /\ pick = idlePick
    /\ rounds = roundCount(FALSE)

SpecFair == InitFair /\ [][Next]_vars /\ WF_vars(Next)

\* ----- LdaThreads on the corpus of two pairs of documents, from round one -----

E2ECorpus == << <<"a", "b">>, <<"a", "b">>, <<"c", "d">>, <<"c", "d">> >>

\* Outcomes of the initial assignment (lines 63-67, rand.Intn(k) per token):
\* every token in topic 0; the two pairs of documents in topics 0 and 1; one
\* document apart from the three others.
E2ELabels ==
    { << <<0, 0>>, <<0, 0>>, <<0, 0>>, <<0, 0>> >>,
      << <<0, 0>>, <<0, 0>>, <<1, 1>>, <<1, 1>> >>,
      << <<0, 0>>, <<0, 0>>, <<0, 0>>, <<1, 1>> >> }

RECURSIVE foldRows(_, _, _, _)
\* Lines 63-67: topics[t].add(docs[i][j]) for the tokens of the first n rows.
foldRows(tables, labels, ds, n) ==
    IF n = 0 THEN tables
    ELSE foldRow(foldRows(tables, labels, ds, n - 1), labels[n], ds[n], Len(ds[n]))

\* The state at the first "for {" (line 73) of LdaThreads(E2ECorpus, 2, 1).
InitE2E ==
    /\ docTokens = E2ECorpus /\ k = 2 /\ numThreads = 1
    /\ chanBuf = BufPerThread
    /\ words = wordMap(docTokens)
    /\ docs = toIndexes(docTokens, wordMap(docTokens))
    /\ doct \in E2ELabels
    /\ topics = foldRows(newDists(k, NumWords, 10 * NumWords), doct, docs, Len(docs))
    /\ initPos = <<Len(docs) + 1, 1>>
    /\ lastChange = NumWords /\ breakSignals = 0
    /\ driver = "round"
    /\ changeMap = {} /\ newTopics = <<>>
    /\ push = newChan /\ pull = newChan /\ change = newChan /\ done = newChan
    /\ doneRecv = 0
    /\ pusher = [pc |-> "idle", i |-> 0]
    /\ puller = "idle" /\ changer = "idle"
    /\ workers = <<>>
    /\ result = noResult
    /\ history = noHistory(0)
    /\ pick = idlePick
    /\ rounds = roundCount(FALSE)

\* The steps of LdaThreads from line 73 on.
NextE2E ==
    \/ RoundStart
    \/ WaitWorker
    \/ CloseChans
    \/ WaitReducer
    \/ UpdateTopics
    \/ CheckHalt
    \/ Return
    \/ PushDoc
    \/ PushClose
    \/ PullDoc
    \/ PullDone
    \/ ChangeMerge
    \/ ChangeDone
    \/ \E w \in DOMAIN workers : WStart(w)
    \/ \E w \in DOMAIN workers : WRecv(w)
    \/ \E w \in DOMAIN workers : WDrained(w)
    \/ \E w \in DOMAIN workers : WUnassign(w)
    \/ \E w \in DOMAIN workers : WAssign(w)
    \/ \E w \in DOMAIN workers : WReport(w)
    \/ \E w \in DOMAIN workers : WChange(w)
    \/ \E w \in DOMAIN workers : WDone(w)

SpecE2E == InitE2E /\ [][NextE2E]_vars

\* ----- the specification of pickRandom called on its own ----------------------

Weights == (0 - 1)..MaxWeight
WeightVectors == UNION {[0..(n - 1) -> Weights] : n \in 0..MaxLen}

InitPick ==
    /\ docTokens = <<>> /\ k = 0 /\ numThreads = 0
    /\ chanBuf = BufPerThread
    /\ driver = "idle"
    /\ Blank
    /\ rounds = roundCount(FALSE)
    /\ \E a \in WeightVectors : pick = [idlePick EXCEPT !.a = a]

\* One call pickRandom(a, rnd) with the values f and u drawn from rnd.
CallPickRandom ==
    /\ ~pick.called
    /\ \E f \in 0..(RandRes - 1) :
       \E u \in IF VecLen(pick.a) = 0 THEN {0} ELSE 0..(VecLen(pick.a) - 1) :
         pick' = [pick EXCEPT !.f = f, !.u = u, !.called = TRUE,
                              !.out = pickRandom(pick.a, f, u)]
    /\ UNCHANGED <<docTokens, k, numThreads, chanBuf, driver, words, docs, topics, doct,
                   initPos, lastChange, breakSignals, changeMap, newTopics,
                   push, pull, change, done, doneRecv, pusher, puller, changer,
                   workers, result, history, rounds>>

NextPick == CallPickRandom

SpecPick == InitPick /\ [][NextPick]_vars

NonNegative(a) == \A x \in DOMAIN a : a[x] >= 0
AllZero(a) == \A x \in DOMAIN a : a[x] = 0

\* ----- properties of LdaThreads (under Spec) ----------------------------------

\* The token positions of the corpus.
Positions == UNION {{<<i, j>> : j \in 1..Len(docs[i])} : i \in 1..Len(docs)}

\* The number of occurrences of word id w in the corpus.
occurrences(w) == Cardinality({p \in Positions : docs[p[1]][p[2]] = w})

RECURSIVE sumCounts(_, _, _)
\* tables[0].count[w] + ... + tables[n-1].count[w]
sumCounts(tables, n, w) ==
    IF n = 0 THEN 0 ELSE sumCounts(tables, n - 1, w) + tables[n - 1].count[w]

\* The driver is past the initial assignment and no goroutine panicked.
Initialized == driver \in {"round", "wait", "join", "halt", "return", "done"}

\* The driver has received every completion signal of the round.
RoundOver ==
    \/ driver \in {"halt", "return", "done"}
    \/ driver = "join" /\ doneRecv = numThreads + 2

\* No goroutine of a round is running.
Quiescent ==
    /\ pusher.pc \in {"idle", "exit"}
    /\ puller \in {"idle", "exit"}
    /\ changer \in {"idle", "exit"}
    /\ \A w \in DOMAIN workers : workers[w].pc = "exit"

\* C1: after the initial assignment and after every round's merge, for every
\* word id the counts of the K topic tables add up to the number of
\* occurrences of the word in the corpus.
C1_CountConservation ==
    /\ Initialized =>
          \A w \in 0..(NumWords - 1) : sumCounts(topics, k, w) = occurrences(w)
    /\ (driver = "join" /\ doneRecv = numThreads + 2) =>
          \A w \in 0..(NumWords - 1) : sumCounts(newTopics, k, w) = occurrences(w)

\* A round of two workers, each with one of two documents, has been merged
\* and some label changed in it.
C1_Witness ==
    /\ driver = "halt" /\ numThreads = 2 /\ k = 2 /\ NumWords = 2
    /\ Len(docs) = 2 /\ history.owner[1] # history.owner[2]
    /\ changeMap # {}

\* C2 as claimed: after a round with change-set size c the counter is
\* incremented if c >= lastChange and reset to zero otherwise.
C2_ResetOnDecrease ==
    [][(driver = "halt" /\ driver' # "halt") =>
          breakSignals' = IF Cardinality(changeMap) >= lastChange
                          THEN breakSignals + 1 ELSE 0]_vars

\* C2 amended: after a round with change-set size c the counter is incremented
\* if c >= lastChange and keeps its value otherwise; the loop is left exactly
\* when the counter reaches BreakLimit, and lastChange becomes c when the loop
\* goes on.
C2_NeverReset ==
    [][(driver = "halt" /\ driver' # "halt") =>
          /\ breakSignals' = IF Cardinality(changeMap) >= lastChange
                             THEN breakSignals + 1 ELSE breakSignals
          /\ (driver' = "return") = (breakSignals' = BreakLimit)
          /\ driver' # "return" =>
                (driver' = "round" /\ lastChange' = Cardinality(changeMap))]_vars

\* A round that reduced the change-set size ends while the counter is positive.
C2_Witness ==
    /\ driver = "halt"
    /\ breakSignals >= 1
    /\ Cardinality(changeMap) < lastChange

\* C3 as claimed: during the token loop the total of the document's
\* distribution is the number of tokens processed so far.
C3_SumIsTokensProcessed ==
    \A w \in DOMAIN workers :
        /\ workers[w].pc \in {"unassign", "assign"} =>
              workers[w].d.sum = workers[w].j - 1
        /\ workers[w].pc = "report" =>
              workers[w].d.sum = Len(docs[workers[w].i])

\* C3 amended: during the reassignment loop the total of the document's
\* distribution is the number of tokens of the document before and after each
\* token's step and one less between the unassignment and the assignment; it
\* is the number of tokens added so far while the distribution is built.
C3_SumIsDocumentLength ==
    \A w \in DOMAIN workers :
        /\ workers[w].pc \in {"unassign", "report"} =>
              workers[w].d.sum = Len(docs[workers[w].i])
        /\ workers[w].pc = "assign" =>
              workers[w].d.sum = Len(docs[workers[w].i]) - 1
        /\ workers[w].pc \in {"unassign", "assign", "report"} =>
              \A n \in 0..Len(docs[workers[w].i]) :
                  buildDist(k, doct[workers[w].i], n).sum = n

\* A worker is about to unassign the second token of a two-token document.
C3_Witness ==
    \E w \in DOMAIN workers :
        /\ workers[w].pc = "unassign"
        /\ workers[w].j = 2
        /\ workers[w].d.sum = 2

\* C4: in a round every document is received from push by at most one worker,
\* only that worker writes the document's row, and when the round is over
\* every document has been received once, resampled once and reported once.
C4_DocumentOwnership ==
    \A i \in DOMAIN history.owner :
        /\ Len(history.owner[i]) <= 1
        /\ history.reports[i] <= 1
        /\ history.writers[i] \subseteq
              {history.owner[i][x] : x \in 1..Len(history.owner[i])}
        /\ RoundOver =>
              /\ Len(history.owner[i]) = 1
              /\ history.reports[i] = 1
              /\ Len(docs[i]) > 0 => history.writers[i] = {history.owner[i][1]}

\* A finished round in which two workers each owned one document.
C4_Witness ==
    /\ driver = "halt" /\ numThreads = 2
    /\ Len(docs) = 2 /\ Len(docs[1]) > 0 /\ Len(docs[2]) > 0
    /\ history.writers[1] = {2} /\ history.writers[2] = {1}

\* C5: when the driver swaps the tables and evaluates the halting condition,
\* every goroutine of the round has ended, every document has been added to
\* the new table and every worker's change-set has been merged; outside a
\* round no goroutine runs.
C5_RoundBarrier ==
    /\ RoundOver =>
          /\ Quiescent
          /\ \A i \in 1..Len(docs) :
                history.reports[i] = 1 /\ history.folded[i] = 1
          /\ history.absorbed = numThreads
          /\ pull.buf = <<>> /\ change.buf = <<>> /\ push.buf = <<>>
    /\ driver \in {"check", "init", "round", "halt", "return", "done"} =>
          Quiescent

\* The barrier of a later round of two workers over two documents.
C5_Witness ==
    /\ driver = "join" /\ doneRecv = numThreads + 2
    /\ numThreads = 2 /\ Len(docs) = 2
    /\ breakSignals >= 1

\* What a step taken during a round may change.
roundStepFrame ==
    driver \in {"wait", "join"} =>
        /\ topics' # topics =>
              /\ driver = "join" /\ driver' = "halt"
              /\ doneRecv = numThreads + 2
              /\ topics' = newTopics
              /\ workers' = workers
        /\ newTopics' # newTopics =>
              /\ puller = "run" /\ pull.buf # <<>>
              /\ pull' = [pull EXCEPT !.buf = Tail(@)]
              /\ workers' = workers
        /\ \A w \in DOMAIN workers :
              workers'[w] # workers[w] =>
                  /\ topics' = topics
                  /\ newTopics' = newTopics
                  /\ \A v \in DOMAIN workers \ {w} : workers'[v] = workers[v]

\* C6: from the start of a round to the swap no step changes the global
\* table; the swap installs newTopics when every goroutine has ended; only
\* the puller changes newTopics; a step of a worker changes neither table nor
\* another worker's locals.
C6_SnapshotImmutable == [][roundStepFrame]_vars

\* Two workers hold clones that differ from the global table and from each
\* other.
C6_Witness ==
    /\ driver = "wait" /\ numThreads = 2
    /\ workers[1].pc = "assign" /\ workers[2].pc = "assign"
    /\ workers[1].myTopics # topics
    /\ workers[2].myTopics # topics
    /\ workers[1].myTopics # workers[2].myTopics

\* C7: whenever a worker is about to unassign a token, the token's topic has
\* a count of at least 1 in the document's distribution and the token's word
\* a count of at least 1 in the worker's clone of that topic's table: neither
\* sub panics.
C7_SubNeverPanics ==
    \A w \in DOMAIN workers :
        workers[w].pc = "unassign" =>
            LET me == workers[w]
                t == doct[me.i][me.j]
                word == docs[me.i][me.j]
            IN /\ me.d.count[t] >= 1
               /\ me.myTopics[t].count[word] >= 1
               /\ ~subPanics(me.d, t)
               /\ ~subPanics(me.myTopics[t], word)

\* A worker, one of two, has unassigned the last token of its topic and word.
C7_Witness ==
    \E w \in DOMAIN workers :
        /\ numThreads = 2
        /\ workers[w].pc = "assign"
        /\ workers[w].d.count[doct[workers[w].i][workers[w].j]] = 0
        /\ workers[w].myTopics[doct[workers[w].i][workers[w].j]].count[
               docs[workers[w].i][workers[w].j]] = 0

\* The input LdaThreads rejects.
InvalidInput == k < 1 \/ numThreads < 1 \/ Flatten(docTokens) = <<>>

\* C8: with k < 1, numThreads < 1 or a corpus without tokens the call ends in
\* a panic of the input checks: no table and no label row is ever created, no
\* goroutine is started and nothing is returned.
C8_InvalidInputRejected ==
    InvalidInput =>
        /\ driver \in {"check", "panic"}
        /\ topics = <<>> /\ doct = <<>> /\ docs = <<>>
        /\ workers = <<>>
        /\ pusher.pc = "idle" /\ puller = "idle" /\ changer = "idle"
        /\ result = noResult

\* The call panicked on a corpus of one empty document.
C8_Witness ==
    /\ driver = "panic"
    /\ k >= 1 /\ numThreads >= 1
    /\ docTokens = << <<>> >>

\* ----- further properties of LdaThreads (under Spec) --------------------------

\* The union of the sets of a sequence of sets.
unionOf(q) == UNION {q[x] : x \in 1..Len(q)}

\* C11: the change-set the halting condition evaluates holds exactly the word
\* ids of the tokens that some worker of the round resampled to a topic other
\* than the one they had just before; during the round those word ids are
\* spread over the workers' maps, the change channel and changeMap, which is
\* empty until the first map is merged.
C11_ChangeSetExact ==
    /\ RoundOver => changeMap = history.changed
    /\ driver \in {"wait", "join"} =>
          /\ history.changed =
                changeMap \cup unionOf(change.buf)
                    \cup UNION {workers[w].myChangeMap : w \in DOMAIN workers}
          /\ history.absorbed = 0 => changeMap = {}

\* A round of two workers changed labels of one word and of no other.
C11_Witness ==
    /\ driver = "halt" /\ numThreads = 2 /\ NumWords = 2
    /\ Cardinality(changeMap) = 1
    /\ history.absorbed = 2

\* sum is the total of count[] and no count is negative.
wellFormed(d) ==
    /\ d.sum = SumTo(d.count, VecLen(d.count))
    /\ \A x \in DOMAIN d.count : d.count[x] >= 0

\* C12: every table of the run (topics, newTopics, the workers' clones and
\* document distributions) has a sum equal to the total of its counts and no
\* negative count, and the copy of a global table has its counts and its sum.
C12_DistInvariant ==
    /\ \A t \in DOMAIN topics :
          /\ wellFormed(topics[t])
          /\ copy(topics[t]).count = topics[t].count
          /\ copy(topics[t]).sum = topics[t].sum
          /\ wellFormed(copy(topics[t]))
    /\ \A t \in DOMAIN newTopics : wellFormed(newTopics[t])
    /\ \A w \in DOMAIN workers :
          /\ wellFormed(workers[w].d)
          /\ \A t \in DOMAIN workers[w].myTopics :
                wellFormed(workers[w].myTopics[t])

\* A worker's clone after a sub and an add, different from the table it was
\* copied from.
C12_Witness ==
    \E w \in DOMAIN workers :
        /\ workers[w].pc = "unassign" /\ workers[w].j = 2
        /\ workers[w].myTopics # topics
        /\ workers[w].myTopics[0].sum > 0 /\ workers[w].myTopics[1].sum > 0

\* C13: from the allocation of the rows to the return, the assignment matrix
\* has one row per input document, each row as long as its document, every
\* label in 0..k-1; the corpus of word ids stays the conversion of the input,
\* and the matrix returned is the matrix.
C13_AssignmentWellFormed ==
    driver \in {"init", "round", "wait", "join", "halt", "return", "done"} =>
        /\ Len(doct) = Len(docTokens)
        /\ \A i \in 1..Len(doct) :
              /\ Len(doct[i]) = Len(docTokens[i])
              /\ \A j \in 1..Len(doct[i]) : doct[i][j] \in 0..(k - 1)
        /\ docs = toIndexes(docTokens, wordMap(docTokens))
        /\ result.returned => result.doct = doct

\* The call returned a matrix with an empty row and a row of two labels.
C13_Witness ==
    /\ driver = "done" /\ result.returned
    /\ Len(docTokens) = 2 /\ Len(docTokens[1]) = 0 /\ Len(docTokens[2]) = 2
    /\ result.doct[2][1] # result.doct[2][2]

\* The number of tokens of word w labelled t, and of tokens labelled t.
tally(t, w) ==
    Cardinality({p \in Positions : docs[p[1]][p[2]] = w /\ doct[p[1]][p[2]] = t})
labelled(t) == Cardinality({p \in Positions : doct[p[1]][p[2]] = t})

\* C15: at every round boundary (after the initial assignment and after each
\* swap) the global table counts, for every topic and word, the tokens of the
\* word that the assignment matrix labels with the topic, and its sum the
\* tokens labelled with the topic; so does newTopics at the barrier.
C15_TableIsTally ==
    /\ driver \in {"round", "halt", "return", "done"} =>
          \A t \in 0..(k - 1) :
              /\ topics[t].sum = labelled(t)
              /\ \A w \in 0..(NumWords - 1) : topics[t].count[w] = tally(t, w)
    /\ (driver = "join" /\ doneRecv = numThreads + 2) =>
          \A t \in 0..(k - 1) :
              /\ newTopics[t].sum = labelled(t)
              /\ \A w \in 0..(NumWords - 1) : newTopics[t].count[w] = tally(t, w)

\* The swap after a round in which both workers changed a label.
C15_Witness ==
    /\ driver = "halt" /\ numThreads = 2 /\ Len(docs) = 2
    /\ Cardinality(changeMap) = 2
    /\ history.writers[1] # history.writers[2]

\* The number of occurrences of x in the sequence q.
countIn(q, x) == Cardinality({y \in 1..Len(q) : q[y] = x})

\* C17: a worker writes labels of a document only before it reports the
\* document; the puller reads a row only after the report; two workers never
\* hold the same document.
C17_NoReadDuringWrite ==
    /\ \A w \in DOMAIN workers :
          workers[w].pc \in {"unassign", "assign", "report"} =>
              /\ history.reports[workers[w].i] = 0
              /\ history.folded[workers[w].i] = 0
              /\ countIn(pull.buf, workers[w].i) = 0
              /\ \A v \in DOMAIN workers \ {w} :
                    workers[v].pc \in {"unassign", "assign", "report"} =>
                        workers[v].i # workers[w].i
    /\ \A i \in DOMAIN history.reports :
          history.folded[i] + countIn(pull.buf, i) = history.reports[i]

\* A worker resamples a document while the other document is already merged.
C17_Witness ==
    \E w \in DOMAIN workers :
        /\ workers[w].pc = "assign" /\ workers[w].i = 2
        /\ history.folded[1] = 1

\* C19: when a worker draws a topic, the weights are all zero exactly when
\* the document has one token, that is when the document's distribution has
\* sum 0 after the unassignment; with two or more tokens some weight is
\* positive; a topic whose clone has sum 0 has weight 0.
C19_ZeroWeights ==
    \A w \in DOMAIN workers :
        workers[w].pc = "assign" =>
            LET me == workers[w]
                a == ts(me.d, me.myTopics, docs[me.i][me.j])
            IN /\ AllZero(a) <=> Len(docs[me.i]) = 1
               /\ AllZero(a) <=> me.d.sum = 0
               /\ Len(docs[me.i]) >= 2 => \E kk \in DOMAIN a : a[kk] > 0
               /\ \A kk \in DOMAIN a : me.myTopics[kk].sum = 0 => a[kk] = 0
               /\ NonNegative(a)

\* A token of a two-token document is drawn while a topic's clone is empty.
C19_Witness ==
    \E w \in DOMAIN workers :
        /\ workers[w].pc = "assign"
        /\ Len(docs[workers[w].i]) = 2
        /\ \E kk \in DOMAIN workers[w].myTopics :
              /\ workers[w].myTopics[kk].sum = 0
              /\ ts(workers[w].d, workers[w].myTopics,
                    docs[workers[w].i][workers[w].j])[kk] = 0

\* All tokens of documents i and j have the label t.
bothLabelled(m, i, j, t) ==
    \A x \in {i, j} : \A y \in 1..Len(m[x]) : m[x][y] = t

\* C14: when LdaThreads(E2ECorpus, 2, P) returns, the tokens of the two
\* documents [a, b] have one topic, the tokens of the two documents [c, d]
\* have one topic, and the two topics differ.
C14_Separation ==
    (driver = "done" /\ result.returned /\ docTokens = E2ECorpus /\ k = 2) =>
        \E t1, t2 \in 0..(k - 1) :
            /\ t1 # t2
            /\ bothLabelled(result.doct, 1, 2, t1)
            /\ bothLabelled(result.doct, 3, 4, t2)

\* The number of completion signals of sender s among those received.
receivedFrom(s) ==
    Cardinality({x \in 1..Len(history.received) : history.received[x] = s})

\* C16: every round that starts completes; no worker panics on a send to a
\* closed channel; the first numThreads completion signals the driver
\* receives are the workers'; when the round is over the pusher, the workers
\* and the two reducers have ended, and numThreads + 2 signals were sent and
\* received: one of each worker, one of each reducer.
C16_RoundProgress ==
    /\ [](/\ \A w \in DOMAIN workers : workers[w].pc # "panic"
          /\ driver = "panic" => InvalidInput
          /\ \A x \in 1..Len(history.received) :
                x <= numThreads => history.received[x] = "worker"
          /\ Len(history.received) + Len(done.buf) <= numThreads + 2
          /\ driver = "halt" =>
                /\ pusher.pc = "exit" /\ puller = "exit" /\ changer = "exit"
                /\ \A w \in DOMAIN workers : workers[w].pc = "exit"
                /\ Len(history.received) = numThreads + 2
                /\ receivedFrom("worker") = numThreads
                /\ receivedFrom("puller") = 1 /\ receivedFrom("changer") = 1
                /\ done.buf = <<>> /\ push.buf = <<>> /\ pull.buf = <<>>
                /\ change.buf = <<>>)
    /\ (driver = "wait") ~> (driver = "halt")

\* A round of one worker over two documents, more than push and pull hold,
\* is over.
C16_Witness ==
    /\ driver = "halt"
    /\ chanBuf = 1 /\ numThreads = 1 /\ Len(docs) = 2
    /\ Len(docs[1]) > 0 /\ Len(docs[2]) > 0
    /\ Len(history.received) = 3

\* The most rounds a call with the words of this call may run.
maxRounds == BreakLimit * (NumWords + 1)

\* C18: a call with valid arguments returns, and a call with invalid ones
\* panics; the call never begins more than 5*(V+1) rounds, V the number of
\* distinct words, and when it leaves the loop it has run 5 rounds at least.
C18_TerminatesWithinBound ==
    /\ [](rounds.on =>
            /\ rounds.n <= maxRounds
            /\ driver \in {"return", "done"} =>
                  rounds.n >= BreakLimit /\ breakSignals = BreakLimit)
    /\ <>(IF InvalidInput THEN driver = "panic" ELSE driver = "done")

\* A call on two words that returned after 5*(2+1) rounds.
C18_Witness ==
    /\ driver = "done" /\ result.returned
    /\ rounds.on /\ NumWords = 2 /\ rounds.n = maxRounds

\* C20: when LdaThreads returns, every topic table has a positive sum.
C20_FinalSumsPositive ==
    result.returned => \A t \in DOMAIN topics : topics[t].sum > 0

\* ----- properties of pickRandom (under SpecPick) ------------------------------

\* C9: for a non-empty vector of non-negative weights, one of them positive,
\* and every value of the random source, pickRandom returns an index of the
\* vector whose weight is positive; an index of weight zero is never returned.
C9_PositiveWeightPicked ==
    (pick.called /\ VecLen(pick.a) > 0 /\ NonNegative(pick.a) /\ ~AllZero(pick.a))
        => /\ ~pick.out.panic
           /\ pick.out.index \in DOMAIN pick.a
           /\ pick.a[pick.out.index] > 0

\* C10: pickRandom panics when the vector is empty or holds a negative
\* weight, whatever the other weights are; when all weights are zero it does
\* not panic, returns an index of the vector, and every index of the vector
\* is a value it can return.
C10_EdgeCases ==
    /\ (pick.called /\ (VecLen(pick.a) = 0 \/ ~NonNegative(pick.a)))
            => pick.out.panic
    /\ (pick.called /\ VecLen(pick.a) > 0 /\ AllZero(pick.a))
            => (~pick.out.panic /\ pick.out.index \in DOMAIN pick.a)
    /\ (VecLen(pick.a) > 0 /\ AllZero(pick.a))
            => pickOutcomes(pick.a) = {Returned(x) : x \in DOMAIN pick.a}

\* A call that panicked on a negative weight standing after a positive one.
C10_Witness ==
    /\ pick.called /\ pick.out.panic
    /\ VecLen(pick.a) = 3
    /\ pick.a[0] > 0 /\ pick.a[1] < 0 /\ pick.a[2] = 0

====
